---- MODULE Spec2Model ----
(***************************************************************************)
(* A model of the proteus HTTP server library: route registration, the      *)
(* accept loop, the per-connection handler (handleClient) and the helpers   *)
(* of lib/http (version negotiation, allowed-method lookup).                *)
(*                                                                          *)
(* Strings are sequences of one-character strings, so that trimming, case   *)
(* conversion, splitting, prefix tests and number parsing/formatting are    *)
(* computed the way the Go library computes them.                           *)
(***************************************************************************)
EXTENDS Integers, Sequences, FiniteSets, TLC

(***************************************************************************)
(* Bounds of the model.                                                     *)
(***************************************************************************)
\* connections accepted by the accept loop in one run
MaxConns == 2
\* registration calls made during setup in SpecRouter
MaxRegs == 2
\* Status / header / Write calls made on one response in SpecResponse
MaxOps == 3
\* callers of NewServer in SpecNewServer
MaxCallers == 3
\* Accept calls that fail in SpecListen
MaxAcceptErrors == 2
MaxStatics == 3

(***************************************************************************)
(* Program constants.                                                       *)
(***************************************************************************)
StatusMethodNotAllowed == 405
StatusNotFound == 404
StatusOK == 200

(***************************************************************************)
(* Go strings package, on sequences of characters.                          *)
(***************************************************************************)
LowerLetters == <<"a","b","c","d","e","f","g","h","i","j","k","l","m",
                  "n","o","p","q","r","s","t","u","v","w","x","y","z">>
UpperLetters == <<"A","B","C","D","E","F","G","H","I","J","K","L","M",
                  "N","O","P","Q","R","S","T","U","V","W","X","Y","Z">>
DigitChars == <<"0","1","2","3","4","5","6","7","8","9">>

IndexIn(c, tbl) == IF \E i \in 1..Len(tbl) : tbl[i] = c
                   THEN CHOOSE i \in 1..Len(tbl) : tbl[i] = c
                   ELSE 0

\* the case mappings of the ASCII letters
UpperOf == [c \in {LowerLetters[i] : i \in 1..Len(LowerLetters)} |->
               UpperLetters[IndexIn(c, LowerLetters)]]
LowerOf == [c \in {UpperLetters[i] : i \in 1..Len(UpperLetters)} |->
               LowerLetters[IndexIn(c, UpperLetters)]]
DigitOf == [c \in {DigitChars[i] : i \in 1..Len(DigitChars)} |->
               IndexIn(c, DigitChars) - 1]

ToUpperChar(c) == IF c \in DOMAIN UpperOf THEN UpperOf[c] ELSE c
ToLowerChar(c) == IF c \in DOMAIN LowerOf THEN LowerOf[c] ELSE c

ToUpper(s) == [i \in 1..Len(s) |-> ToUpperChar(s[i])]
ToLower(s) == [i \in 1..Len(s) |-> ToLowerChar(s[i])]

IsSpace(c) == c \in {" ", "\t", "\r", "\n"}

RECURSIVE TrimLeft(_)
TrimLeft(s) == IF s # <<>> /\ IsSpace(Head(s)) THEN TrimLeft(Tail(s)) ELSE s
RECURSIVE TrimRight(_)
TrimRight(s) == IF s # <<>> /\ IsSpace(s[Len(s)])
                THEN TrimRight(SubSeq(s, 1, Len(s) - 1)) ELSE s
TrimSpace(s) == TrimRight(TrimLeft(s))

\* strings.EqualFold on ASCII text: equal after simple case folding
EqualFold(a, b) == ToLower(a) = ToLower(b)

HasPrefix(s, p) == Len(p) <= Len(s) /\ SubSeq(s, 1, Len(p)) = p

\* slices.Contains
Contains(list, x) == \E i \in 1..Len(list) : list[i] = x

(***************************************************************************)
(* strconv.ParseFloat and fmt.Sprintf("%.1f"), on decimal numerals with at  *)
(* most one fractional digit.  A number is held in tenths; ParseErr is the  *)
(* error result.                                                            *)
(***************************************************************************)
ParseErr == -1

IsDigits(s) == \A i \in 1..Len(s) : s[i] \in DOMAIN DigitOf

RECURSIVE DigitsValue(_)
DigitsValue(s) == IF s = <<>> THEN 0
                  ELSE 10 * DigitsValue(SubSeq(s, 1, Len(s) - 1))
                       + DigitOf[s[Len(s)]]

DotAt(s) == IF \E i \in 1..Len(s) : s[i] = "."
            THEN CHOOSE i \in 1..Len(s) : s[i] = "." /\ \A j \in 1..(i-1) : s[j] # "."
            ELSE 0

ParseFloat(s) ==
    LET d == DotAt(s)
        ip == IF d = 0 THEN s ELSE SubSeq(s, 1, d - 1)
        fp == IF d = 0 THEN <<>> ELSE SubSeq(s, d + 1, Len(s))
    IN IF /\ IsDigits(ip) /\ IsDigits(fp)
          /\ Len(ip) + Len(fp) > 0
          /\ Len(fp) <= 1
       THEN 10 * DigitsValue(ip) + DigitsValue(fp)
       ELSE ParseErr

RECURSIVE NatToString(_)
NatToString(n) == IF n < 10 THEN <<DigitChars[n + 1]>>
                  ELSE NatToString(n \div 10) \o <<DigitChars[(n % 10) + 1]>>

\* fmt.Sprintf("%.1f", x) for x held in tenths
Sprintf1f(t) == NatToString(t \div 10) \o <<".">> \o <<DigitChars[(t % 10) + 1]>>

(***************************************************************************)
(* Text used by the model.                                                  *)
(***************************************************************************)
sGET == <<"G","E","T">>
sHEAD == <<"H","E","A","D">>
sPOST == <<"P","O","S","T">>
sPUT == <<"P","U","T">>
sDELETE == <<"D","E","L","E","T","E">>
sBREW == <<"B","R","E","W">>
sGetLower == <<"g","e","t">>
v09 == <<"0",".","9">>
v10 == <<"1",".","0">>
v11 == <<"1",".","1">>
v20 == <<"2",".","0">>
vJunk == <<"x">>
Slash == <<"/">>
segUser == <<"u","s","e","r">>
segName == <<"n","a","m","e">>
segColonName == <<":">> \o segName
segAlice == <<"a","l","i","c","e">>
segBob == <<"b","o","b">>
segAdmin == <<"a","d","m","i","n">>
segExtra == <<"e","x","t","r","a">>
segFiles == <<"f","i","l","e","s">>
segReportPdf == <<"r","e","p","o","r","t",".","p","d","f">>
pUserName == Slash \o segUser \o Slash \o segColonName
pUserNameSp == <<" ">> \o pUserName \o <<" ">>
pUserAdmin == Slash \o segUser \o Slash \o segAdmin
pFiles == Slash \o segFiles
tDirA == <<"/","s","r","v","/","F","i","l","e","s">>
tDirB == <<"/","s","r","v","/","o","t","h","e","r">>
rUserAlice == Slash \o segUser \o Slash \o segAlice
rUserBob == Slash \o segUser \o Slash \o segBob
rUserBobSlash == Slash \o Slash \o segUser \o Slash \o segBob \o Slash
rUserColon == Slash \o segUser \o Slash \o segColonName
rUser == Slash \o segUser
rUserAliceExtra == rUserAlice \o Slash \o segExtra
rUserAdmin == Slash \o segUser \o Slash \o segAdmin
rFilesReport == pFiles \o Slash \o segReportPdf
rRoot == Slash

(***************************************************************************)
(* The allowed-methods table (Versions): protocol version identifier to     *)
(* the methods valid for that version.                                      *)
(***************************************************************************)
Versions == (v09 :> <<sGET>>)
         @@ (v10 :> <<sGET, sHEAD, sPOST>>)
         @@ (v11 :> <<sGET, sHEAD, sPOST, sPUT, sDELETE>>)

(***************************************************************************)
(* lib/http utilities.                                                      *)
(***************************************************************************)
NoErr == "nil"

Max(S) == CHOOSE x \in S : \A y \in S : y <= x
Min(S) == CHOOSE x \in S : \A y \in S : x <= y

\* faulty variant: the comparison reversed, so the least value is kept
getHighestVersion_min ==
    Sprintf1f(Min({0} \cup {ParseFloat(k) : k \in {x \in DOMAIN Versions : ParseFloat(x) # ParseErr}}))

\* the float64 maximum over the parseable keys, starting from 0.0
getHighestVersion ==
    Sprintf1f(Max({0} \cup {ParseFloat(k) : k \in {x \in DOMAIN Versions : ParseFloat(x) # ParseErr}}))

\* the keys of Versions, trimmed (the slice's order is the map's iteration order)
getAllVersions == {TrimSpace(versionNo) : versionNo \in DOMAIN Versions}

\* faulty variant: the version of the entry is not compared
isMethodAllowed_anyVersion(version, requestMethod) ==
    \E versionNo \in DOMAIN Versions : Contains(Versions[versionNo], requestMethod)

isMethodAllowed(version, requestMethod) ==
    \E versionNo \in DOMAIN Versions :
        EqualFold(versionNo, version) /\ Contains(Versions[versionNo], requestMethod)

getResponseVersion(requestVersion) ==
    IF \E version \in getAllVersions : EqualFold(version, requestVersion)
    THEN requestVersion
    ELSE getHighestVersion

(***************************************************************************)
(* The same four functions with the package's table as a parameter, for     *)
(* the tables a build of the package may be given.                          *)
(***************************************************************************)
getHighestVersionOf(Table) ==
    Sprintf1f(Max({0} \cup {ParseFloat(k) : k \in {x \in DOMAIN Table : ParseFloat(x) # ParseErr}}))

getAllVersionsOf(Table) == {TrimSpace(versionNo) : versionNo \in DOMAIN Table}

isMethodAllowedOf(Table, version, requestMethod) ==
    \E versionNo \in DOMAIN Table :
        EqualFold(versionNo, version) /\ Contains(Table[versionNo], requestMethod)

getResponseVersionOf(Table, requestVersion) ==
    IF \E version \in getAllVersionsOf(Table) : EqualFold(version, requestVersion)
    THEN requestVersion
    ELSE getHighestVersionOf(Table)

(***************************************************************************)
(* Content types.  AllowedContentTypes maps a lower-case extension (with    *)
(* its dot) to a media type; ServerDefaults holds the default media type.   *)
(* What fs.GetPathType reports for a path is one of PathTypes: a regular    *)
(* file, a directory, neither of the two, or an error (the path does not    *)
(* exist, or the lookup failed).                                            *)
(***************************************************************************)
extPdf == <<".","p","d","f">>
extHtml == <<".","h","t","m","l">>
ctPdf == <<"a","p","p","l","i","c","a","t","i","o","n","/","p","d","f">>
ctHtml == <<"t","e","x","t","/","h","t","m","l">>
ctDefault == <<"a","p","p","l","i","c","a","t","i","o","n","/",
               "o","c","t","e","t","-","s","t","r","e","a","m">>

AllowedContentTypes == (extPdf :> ctPdf) @@ (extHtml :> ctHtml)

ServerDefaults == [content_type |-> ctDefault]

FILE_TYPE_PATH == "file"

PathTypes == {"file", "dir", "other", "error"}

\* fs.GetPathType: the type reported and the error
GetPathType(ptype) ==
    IF ptype = "error" THEN [pathType |-> "other", err |-> "error"]
    ELSE [pathType |-> ptype, err |-> NoErr]

\* filepath.Ext: from the last dot of the last element of the path
Ext(path) ==
    LET dots == {i \in 1..Len(path) :
                    path[i] = "." /\ \A j \in i..Len(path) : path[j] # "/"}
    IN IF dots = {} THEN <<>>
       ELSE SubSeq(path, CHOOSE i \in dots : \A j \in dots : j <= i, Len(path))

\* faulty variant: the extension is looked up as written
getContentType_noLower(CompleteFilePath, ptype) ==
    LET pt == GetPathType(ptype)
        fileExtension == TrimSpace(Ext(CompleteFilePath))
    IN IF pt.err = NoErr /\ pt.pathType = FILE_TYPE_PATH
       THEN IF fileExtension \in DOMAIN AllowedContentTypes
            THEN [contentType |-> AllowedContentTypes[fileExtension], ok |-> TRUE]
            ELSE [contentType |-> TrimSpace(ServerDefaults.content_type), ok |-> TRUE]
       ELSE [contentType |-> <<>>, ok |-> FALSE]

\* ptype is what the filesystem holds at CompleteFilePath
getContentType(CompleteFilePath, ptype) ==
    LET pt == GetPathType(ptype)
        fileExtension == ToLower(TrimSpace(Ext(CompleteFilePath)))
    IN IF pt.err = NoErr /\ pt.pathType = FILE_TYPE_PATH
       THEN IF fileExtension \in DOMAIN AllowedContentTypes
            THEN [contentType |-> AllowedContentTypes[fileExtension], ok |-> TRUE]
            ELSE [contentType |-> TrimSpace(ServerDefaults.content_type), ok |-> TRUE]
       ELSE [contentType |-> <<>>, ok |-> FALSE]

(***************************************************************************)
(* Path Segment Parser: the non-empty pieces of a path between "/".         *)
(***************************************************************************)
RECURSIVE SplitAcc(_, _, _)
SplitAcc(s, cur, acc) ==
    IF s = <<>>
    THEN (IF cur = <<>> THEN acc ELSE Append(acc, cur))
    ELSE IF Head(s) = "/"
         THEN SplitAcc(Tail(s), <<>>, IF cur = <<>> THEN acc ELSE Append(acc, cur))
         ELSE SplitAcc(Tail(s), Append(cur, Head(s)), acc)

SplitPath(path) == SplitAcc(path, <<>>, <<>>)

\* a pattern segment beginning with ":" is a parameter placeholder
IsParam(seg) == seg # <<>> /\ seg[1] = ":"
ParamName(seg) == Tail(seg)

(***************************************************************************)
(* Router.  Routes is the ordered list of static mappings.  RouteTree is    *)
(* the tree of dynamic routes: a node is named by the pattern segments on   *)
(* the way from the root (nodes is closed under prefixes), and handlers     *)
(* holds the handler attached to a node for a method.                       *)
(***************************************************************************)
NoError == "nil"
DuplicateRoute == "DuplicateRoute"
InvalidPattern == "InvalidPattern"
RouteNotFound == "RouteNotFound"

createTree == [nodes |-> {<<>>}, handlers |-> {}]

newRouter == [Routes |-> <<>>, RouteTree |-> createTree]

addStaticRoute(router, method, routePrefix, targetPath) ==
    IF \E i \in 1..Len(router.Routes) :
           /\ router.Routes[i].Method = method
           /\ router.Routes[i].RoutePath = routePrefix
    THEN [router |-> router, err |-> DuplicateRoute]
    ELSE [router |-> [router EXCEPT !.Routes =
                         Append(@, [Method |-> method, RoutePath |-> routePrefix,
                                    TargetPath |-> targetPath])],
          err |-> NoError]

Prefixes(segs) == {SubSeq(segs, 1, i) : i \in 0..Len(segs)}

\* the parameter child of a node, as a set (empty, or the one child)
ParamChildren(tree, node) ==
    {n \in tree.nodes : /\ Len(n) = Len(node) + 1
                        /\ SubSeq(n, 1, Len(node)) = node
                        /\ IsParam(n[Len(n)])}

addDynamicRoute(router, method, pattern, handler) ==
    LET tree == router.RouteTree
        segs == SplitPath(pattern)
        invalid == \E i \in 1..Len(segs) :
                      /\ IsParam(segs[i])
                      /\ \E n \in ParamChildren(tree, SubSeq(segs, 1, i - 1)) :
                             n[i] # segs[i]
        duplicate == \E h \in tree.handlers : h.node = segs /\ h.method = method
    IN IF invalid THEN [router |-> router, err |-> InvalidPattern]
       ELSE IF duplicate THEN [router |-> router, err |-> DuplicateRoute]
       ELSE [router |-> [router EXCEPT !.RouteTree =
                            [nodes |-> tree.nodes \cup Prefixes(segs),
                             handlers |-> tree.handlers \cup
                                 {[node |-> segs, method |-> method, handler |-> handler]}]],
             err |-> NoError]

\* the descent of the tree: literal child first, else the parameter child
RECURSIVE Descend(_, _, _, _, _)
Descend(tree, segs, i, node, bound) ==
    IF i > Len(segs) THEN [found |-> TRUE, node |-> node, bound |-> bound]
    ELSE LET seg == segs[i]
             lit == Append(node, seg)
             par == ParamChildren(tree, node)
         IN IF ~IsParam(seg) /\ lit \in tree.nodes
            THEN Descend(tree, segs, i + 1, lit, bound)
            ELSE IF par # {}
                 THEN LET p == CHOOSE n \in par : TRUE
                      IN Descend(tree, segs, i + 1, p,
                                 Append(bound, [name |-> ParamName(p[Len(p)]),
                                                value |-> seg]))
                 ELSE [found |-> FALSE, node |-> node, bound |-> bound]

\* PathSegments.Get: the values bound to a name, in insertion order
RECURSIVE SegmentsGet(_, _)
SegmentsGet(bound, name) ==
    IF bound = <<>> THEN <<>>
    ELSE (IF Head(bound).name = name THEN <<Head(bound).value>> ELSE <<>>)
         \o SegmentsGet(Tail(bound), name)

StaticMatches(router, method, path) ==
    {i \in 1..Len(router.Routes) :
        /\ router.Routes[i].Method = method
        /\ HasPrefix(path, router.Routes[i].RoutePath)}

NoMatch == [err |-> RouteNotFound, kind |-> "none", handler |-> "none",
            target |-> <<>>, node |-> <<>>, bound |-> <<>>]

matchRoute(router, request) ==
    LET sm == StaticMatches(router, request.Method, request.Path)
    IN IF sm # {}
       THEN LET r == router.Routes[Min(sm)]
            IN [err |-> NoError, kind |-> "static", handler |-> "static",
                target |-> r.TargetPath \o
                           SubSeq(request.Path, Len(r.RoutePath) + 1, Len(request.Path)),
                node |-> <<>>, bound |-> <<>>]
       ELSE LET d == Descend(router.RouteTree, SplitPath(request.Path), 1, <<>>, <<>>)
                hs == {h \in router.RouteTree.handlers :
                          h.node = d.node /\ h.method = request.Method}
            IN IF d.found /\ hs # {}
               THEN [err |-> NoError, kind |-> "dynamic",
                     handler |-> (CHOOSE h \in hs : TRUE).handler,
                     target |-> <<>>, node |-> d.node, bound |-> d.bound]
               ELSE NoMatch

(***************************************************************************)
(* Response Model.  out is what has been written to the response's output   *)
(* stream, in order: the status line, the header block, body chunks.        *)
(***************************************************************************)
KnownStatus == {StatusOK, StatusNotFound, StatusMethodNotAllowed}

StatusLine(version, code) ==
    [t |-> "status", version |-> version, code |-> code, headers |-> {}, data |-> ""]
HeaderBlock(headers) ==
    [t |-> "headers", version |-> <<>>, code |-> 0, headers |-> headers, data |-> ""]
BodyChunk(data) ==
    [t |-> "body", version |-> <<>>, code |-> 0, headers |-> {}, data |-> data]

NoResponse == [Version |-> <<>>, StatusCode |-> 0, Headers |-> {},
               headersSent |-> FALSE, out |-> <<>>, built |-> FALSE]

\* faulty variant: the response starts with headersSent already set
newResponse_headersSent(request) ==
    [Version |-> getResponseVersion(request.Version), StatusCode |-> StatusOK,
     Headers |-> {}, headersSent |-> TRUE, out |-> <<>>, built |-> TRUE]

newResponse(request) ==
    [Version |-> getResponseVersion(request.Version), StatusCode |-> StatusOK,
     Headers |-> {}, headersSent |-> FALSE, out |-> <<>>, built |-> TRUE]

ResStatus(res, code) == [res EXCEPT !.StatusCode = code]

ResSetHeader(res, name, value) ==
    IF res.headersSent THEN res
    ELSE [res EXCEPT !.Headers =
             {h \in @ : h.name # name} \cup {[name |-> name, value |-> value]}]

ResWrite(res, data) ==
    IF res.headersSent
    THEN [res EXCEPT !.out = Append(@, BodyChunk(data))]
    ELSE IF res.StatusCode \notin KnownStatus
         THEN res
         ELSE LET hs == IF \E h \in res.Headers : h.name = "Date"
                        THEN res.Headers
                        ELSE res.Headers \cup {[name |-> "Date", value |-> "now"]}
              IN [res EXCEPT !.Headers = hs,
                             !.headersSent = TRUE,
                             !.out = @ \o <<StatusLine(res.Version, res.StatusCode),
                                            HeaderBlock(hs), BodyChunk(data)>>]

(***************************************************************************)
(* Handlers.  ErrorHandler writes the error response for the status set by  *)
(* the caller.  "h1" is the handler main registers for /user/:name (it      *)
(* prints the bound name and returns nil without touching the response);    *)
(* "h2" is a handler that sets a header and writes a body; "static" serves  *)
(* the file a static route resolved to.                                     *)
(***************************************************************************)
Handlers == {"h1", "h2"}

FileSystem == {tDirA \o Slash \o segReportPdf}

ErrorHandler(request, res) == ResWrite(res, "error")

RunHandler(handler, request, res, target) ==
    CASE handler = "error" -> ErrorHandler(request, res)
      [] handler = "h1" -> res
      [] handler = "h2" -> ResWrite(ResSetHeader(res, "Content-Type", "text/plain"), "hello")
      [] handler = "static" ->
            IF target \in FileSystem
            THEN ResWrite(res, "file")
            ELSE ErrorHandler(request, ResStatus(res, StatusNotFound))
      [] OTHER -> res

\* the error a route handler returns: h1 is main's handler, which returns
\* nil; h2 stands for a handler that writes its response and then fails
HandlerReturn(handler) ==
    CASE handler = "h1" -> NoErr
      [] handler = "h2" -> "error"
      [] handler = "static" -> NoErr
      [] OTHER -> "none"

(***************************************************************************)
(* HttpServer registration methods.  Each returns the router after the      *)
(* call and the error returned to the caller.                               *)
(***************************************************************************)
\* faulty variant: the HEAD route is not registered
Static_getOnly(router, Route, TargetPath) ==
    addStaticRoute(router, sGET, Route, TargetPath)

Static(router, Route, TargetPath) ==
    LET g == addStaticRoute(router, sGET, Route, TargetPath)
    IN IF g.err # NoError THEN g
       ELSE addStaticRoute(g.router, sHEAD, Route, TargetPath)

\* faulty variant: the pattern is registered untrimmed
Get_noTrim(router, routePath, handlerFunc) ==
    addDynamicRoute(router, sGET, routePath, handlerFunc)

\* faulty variant: the route is registered under HEAD
Get_asHead(router, routePath, handlerFunc) ==
    addDynamicRoute(router, sHEAD, TrimSpace(routePath), handlerFunc)

Get(router, routePath, handlerFunc) ==
    addDynamicRoute(router, sGET, TrimSpace(routePath), handlerFunc)

\* HttpServer.Head (Head is the Sequences operator)
ServerHead(router, routePath, handlerFunc) ==
    addDynamicRoute(router, sHEAD, TrimSpace(routePath), handlerFunc)

Post(router, routePath, handlerFunc) ==
    addDynamicRoute(router, sPOST, TrimSpace(routePath), handlerFunc)

(***************************************************************************)
(* State.                                                                   *)
(*   router  the server's innerRouter                                       *)
(*   regs    the registration calls made so far, with the error returned    *)
(*   phase   "setup" until Listen is called; then "listening", or "stopped" *)
(*           when the listener socket could not be created                  *)
(*   mainpc  the position of main ("lib" when the library is driven by a    *)
(*           caller other than main)                                        *)
(*   nacc    connections accepted so far                                    *)
(*   conn    per connection: the position of its handleClient task, its     *)
(*           request and response objects, the handler invoked, and the     *)
(*           calls made, in order                                           *)
(*   resp    a response object driven directly (SpecResponse)               *)
(*   ops     the calls made on resp, in order                               *)
(*   nerr    Accept calls that returned an error (SpecListen)               *)
(*   lookup  a content-type resolution: the path, what the filesystem       *)
(*           reports for it, and the result (SpecContentType)               *)
(*   negot   a version negotiation against a supported-versions table       *)
(*           (SpecVersions)                                                 *)
(*   ServerInstance, SrvLogger, servers, caller                             *)
(*           the package-level singleton and logger (0 is nil, otherwise    *)
(*           the number of the object), the number of HttpServer objects    *)
(*           created, and the callers of NewServer (SpecNewServer)          *)
(***************************************************************************)
VARIABLES router, regs, phase, mainpc, nacc, conn, resp, ops,
          nerr, lookup, negot, ServerInstance, SrvLogger, servers, caller

libvars == <<nerr, lookup, negot, ServerInstance, SrvLogger, servers, caller>>

vars == <<router, regs, phase, mainpc, nacc, conn, resp, ops, libvars>>

Conns == 1..MaxConns

NoRequest == [Method |-> <<>>, Path |-> <<>>, Version |-> <<>>, Segments |-> <<>>]

Request(method, version, path) ==
    [Method |-> method, Path |-> path, Version |-> version, Segments |-> <<>>]

\* requests a client may send (as read() parses them: the three tokens trimmed)
Requests ==
    {Request(sGET, v, rUserAlice) : v \in {v11, v10, v20}}
    \cup {Request(m, v11, rUserAlice) : m \in {sGetLower, sPUT, sBREW, sPOST}}
    \cup {Request(sPUT, v10, rUserAlice), Request(sPOST, v09, rUserAlice)}
    \cup {Request(sGET, v11, p) :
            p \in {rUserBob, rUserBobSlash, rUser, rUserAliceExtra, rUserAdmin,
                   rUserColon, rFilesReport, rRoot}}
    \cup {Request(sHEAD, v, rFilesReport) : v \in {v11, v09}}
    \cup {Request(sGET, vJunk, rUserAdmin)}

ParseErrors == {"MalformedRequestLine", "MalformedHeader"}

IdleConn == [pc |-> "idle", req |-> NoRequest, res |-> NoResponse,
             handler |-> "none", target |-> <<>>, node |-> <<>>, calls |-> <<>>, wire |-> <<>>,
             ret |-> "none"]

Callers == 1..MaxCallers

IdleCaller == [pc |-> "idle", ret |-> 0]

NoLookup == [path |-> <<>>, ptype |-> "none", done |-> FALSE,
             contentType |-> <<>>, ok |-> FALSE]

NoNegot == [table |-> Versions, requestVersion |-> <<>>, done |-> FALSE,
            responseVersion |-> <<>>]

\* the package state once NewServer has returned the server to its caller
InitLib ==
    /\ nerr = 0
    /\ lookup = NoLookup
    /\ negot = NoNegot
    /\ ServerInstance = 1
    /\ SrvLogger = 1
    /\ servers = 1
    /\ caller = [k \in Callers |-> IdleCaller]

Init ==
    /\ router = newRouter
    /\ regs = <<>>
    /\ phase = "setup"
    /\ mainpc = "static"
    /\ nacc = 0
    /\ conn = [c \in Conns |-> IdleConn]
    /\ resp = NoResponse
    /\ ops = <<>>
    /\ InitLib

Reg(op, path, arg, err) == [op |-> op, path |-> path, arg |-> arg, err |-> err]

(***************************************************************************)
(* main: Static("/files", cwd/Files), Get("/user/:name", h1), Listen.       *)
(* The errors the registrations return are ignored.                         *)
(***************************************************************************)
MainStatic ==
    /\ mainpc = "static"
    /\ LET r == Static(router, pFiles, tDirA)
       IN /\ router' = r.router
          /\ regs' = Append(regs, Reg("Static", pFiles, tDirA, r.err))
    /\ mainpc' = "get"
    /\ UNCHANGED <<phase, nacc, conn, resp, ops, libvars>>

MainGet ==
    /\ mainpc = "get"
    /\ LET r == Get(router, pUserName, "h1")
       IN /\ router' = r.router
          /\ regs' = Append(regs, Reg("Get", pUserName, "h1", r.err))
    /\ mainpc' = "listen"
    /\ UNCHANGED <<phase, nacc, conn, resp, ops, libvars>>

(***************************************************************************)
(* Listen: net.Listen succeeds and the accept loop starts, or it fails and  *)
(* Listen returns.                                                          *)
(***************************************************************************)
Listen ==
    /\ phase = "setup"
    /\ mainpc \in {"listen", "lib"}
    /\ \E ok \in BOOLEAN : phase' = IF ok THEN "listening" ELSE "stopped"
    /\ mainpc' = IF mainpc = "listen" THEN "done" ELSE mainpc
    /\ UNCHANGED <<router, regs, nacc, conn, resp, ops, libvars>>

\* faulty variant: handleClient is called in the accept loop itself, so the
\* next Accept waits for the connection before it to be closed
Accept_serial(c) ==
    /\ phase = "listening"
    /\ c = nacc + 1
    /\ conn[c].pc = "idle"
    /\ \A d \in Conns : d < c => conn[d].pc = "closed"
    /\ nacc' = c
    /\ conn' = [conn EXCEPT ![c].pc = "accepted"]
    /\ UNCHANGED <<router, regs, phase, mainpc, resp, ops, libvars>>

\* one successful Accept: a handleClient task is spawned for the connection
Accept(c) ==
    /\ phase = "listening"
    /\ c = nacc + 1
    /\ conn[c].pc = "idle"
    /\ nacc' = c
    /\ conn' = [conn EXCEPT ![c].pc = "accepted"]
    /\ UNCHANGED <<router, regs, phase, mainpc, resp, ops, libvars>>

(***************************************************************************)
(* handleClient, in the steps at which it can block: the read of the        *)
(* request, the dispatch up to the call of the handler, and the handler's   *)
(* return followed by the deferred Close.                                   *)
(***************************************************************************)
\* faulty variant: handleClient goes on after a failed read
HandleRead_noReturn(c) ==
    /\ conn[c].pc = "accepted"
    /\ \/ \E rq \in Requests :
            conn' = [conn EXCEPT ![c].pc = "parsed", ![c].req = rq,
                                 ![c].calls = Append(@, "read")]
       \/ \E e \in ParseErrors :
            conn' = [conn EXCEPT ![c].pc = "parsed",
                                 ![c].calls = Append(@, "readError")]
    /\ UNCHANGED <<router, regs, phase, mainpc, nacc, resp, ops, libvars>>

HandleRead(c) ==
    /\ conn[c].pc = "accepted"
    /\ \/ \E rq \in Requests :
            conn' = [conn EXCEPT ![c].pc = "parsed", ![c].req = rq,
                                 ![c].calls = Append(@, "read")]
       \/ \E e \in ParseErrors :
            conn' = [conn EXCEPT ![c].pc = "closed",
                                 ![c].calls = @ \o <<"readError", "Close">>]
    /\ UNCHANGED <<router, regs, phase, mainpc, nacc, resp, ops, libvars>>

\* the three ways handleClient goes on once the response object is built
DispatchNotAllowed(cn, rs) ==
    [cn EXCEPT !.pc = "handler",
               !.res = ResStatus(rs, StatusMethodNotAllowed),
               !.handler = "error",
               !.calls = @ \o <<"newResponse", "Status405", "ErrorHandler">>]

DispatchNotFound(cn, rs) ==
    [cn EXCEPT !.pc = "handler",
               !.res = ResStatus(rs, StatusNotFound),
               !.handler = "error",
               !.calls = @ \o <<"newResponse", "matchRoute", "Status404", "ErrorHandler">>]

DispatchMatched(cn, rs, m) ==
    [cn EXCEPT !.pc = "handler",
               !.req.Segments = m.bound,
               !.res = rs,
               !.handler = m.handler,
               !.target = m.target,
               !.node = m.node,
               !.calls = @ \o <<"newResponse", "matchRoute", "routeHandler">>]

\* faulty variant: the error of matchRoute is not tested
Dispatch_errIgnored(cn, rt) ==
    LET rq == cn.req
        rs == newResponse(rq)
    IN IF ~isMethodAllowed(rs.Version, ToUpper(TrimSpace(rq.Method)))
       THEN DispatchNotAllowed(cn, rs)
       ELSE DispatchMatched(cn, rs, matchRoute(rt, rq))

Dispatch(cn, rt) ==
    LET rq == cn.req
        rs == newResponse(rq)
    IN IF ~isMethodAllowed(rs.Version, ToUpper(TrimSpace(rq.Method)))
       THEN DispatchNotAllowed(cn, rs)
       ELSE LET m == matchRoute(rt, rq)
            IN IF m.err # NoError
               THEN DispatchNotFound(cn, rs)
               ELSE DispatchMatched(cn, rs, m)

\* faulty variant: a lookup that found nothing drops the static routes
HandleDispatch_mutatesRouter(c) ==
    /\ conn[c].pc = "parsed"
    /\ conn' = [conn EXCEPT ![c] = Dispatch(conn[c], router)]
    /\ router' = IF matchRoute(router, conn[c].req).err # NoError
                 THEN [router EXCEPT !.Routes = <<>>]
                 ELSE router
    /\ UNCHANGED <<regs, phase, mainpc, nacc, resp, ops, libvars>>

\* faulty variant: one response object serves every connection task, so a
\* dispatch also replaces the response of the tasks that are at their handler
HandleDispatch_sharedResponse(c) ==
    /\ conn[c].pc = "parsed"
    /\ LET d == Dispatch(conn[c], router)
       IN conn' = [k \in Conns |->
                     IF k = c THEN d
                     ELSE IF conn[k].pc = "handler"
                          THEN [conn[k] EXCEPT !.res = d.res]
                          ELSE conn[k]]
    /\ UNCHANGED <<router, regs, phase, mainpc, nacc, resp, ops, libvars>>

HandleDispatch(c) ==
    /\ conn[c].pc = "parsed"
    /\ conn' = [conn EXCEPT ![c] = Dispatch(conn[c], router)]
    /\ UNCHANGED <<router, regs, phase, mainpc, nacc, resp, ops, libvars>>

\* faulty variant: the task reads again instead of closing
HandleReturn_keepAlive(c) ==
    /\ conn[c].pc = "handler"
    /\ LET rs == RunHandler(conn[c].handler, conn[c].req, conn[c].res, conn[c].target)
       IN conn' = [conn EXCEPT ![c].pc = "accepted",
                               ![c].res = rs,
                               ![c].wire = rs.out,
                               ![c].ret = HandlerReturn(conn[c].handler),
                               ![c].calls = Append(@, "return")]
    /\ UNCHANGED <<router, regs, phase, mainpc, nacc, resp, ops, libvars>>

\* faulty variant: when the route handler returns an error the task ends
\* without closing the connection
HandleReturn_errLeaks(c) ==
    /\ conn[c].pc = "handler"
    /\ LET rs == RunHandler(conn[c].handler, conn[c].req, conn[c].res, conn[c].target)
           e == HandlerReturn(conn[c].handler)
       IN conn' = [conn EXCEPT ![c].pc = IF e = "error" THEN "leaked" ELSE "closed",
                               ![c].res = rs,
                               ![c].wire = rs.out,
                               ![c].ret = e,
                               ![c].calls = @ \o (IF e = "error" THEN <<"return">>
                                                  ELSE <<"return", "Close">>)]
    /\ UNCHANGED <<router, regs, phase, mainpc, nacc, resp, ops, libvars>>

\* faulty variant: an error returned by the route handler is answered with
\* the error handler
HandleReturn_errToErrorHandler(c) ==
    /\ conn[c].pc = "handler"
    /\ LET rs == RunHandler(conn[c].handler, conn[c].req, conn[c].res, conn[c].target)
           e == HandlerReturn(conn[c].handler)
       IN conn' = [conn EXCEPT ![c].pc = "closed",
                               ![c].res = IF e = "error"
                                          THEN ErrorHandler(conn[c].req, ResStatus(rs, 500))
                                          ELSE rs,
                               ![c].wire = IF e = "error"
                                           THEN ErrorHandler(conn[c].req, ResStatus(rs, 500)).out
                                           ELSE rs.out,
                               ![c].ret = e,
                               ![c].calls = @ \o (IF e = "error"
                                                  THEN <<"return", "ErrorHandler", "Close">>
                                                  ELSE <<"return", "Close">>)]
    /\ UNCHANGED <<router, regs, phase, mainpc, nacc, resp, ops, libvars>>

\* the invoked handler runs and returns; handleClient returns and the
\* deferred Close runs.  What the response wrote is what the client got.
HandleReturn(c) ==
    /\ conn[c].pc = "handler"
    /\ LET rs == RunHandler(conn[c].handler, conn[c].req, conn[c].res, conn[c].target)
       IN conn' = [conn EXCEPT ![c].pc = "closed",
                               ![c].res = rs,
                               ![c].wire = rs.out,
                               ![c].ret = HandlerReturn(conn[c].handler),
                               ![c].calls = @ \o <<"return", "Close">>]
    /\ UNCHANGED <<router, regs, phase, mainpc, nacc, resp, ops, libvars>>

HandleClient(c) == HandleRead(c) \/ HandleDispatch(c) \/ HandleReturn(c)

Next ==
    \/ MainStatic
    \/ MainGet
    \/ Listen
    \/ \E c \in Conns : Accept(c)
    \/ \E c \in Conns : HandleRead(c)
    \/ \E c \in Conns : HandleDispatch(c)
    \/ \E c \in Conns : HandleReturn(c)

Spec == Init /\ [][Next]_vars

(***************************************************************************)
(* SpecRouter: the library driven by any caller.  Up to MaxRegs             *)
(* registration calls are made during setup, then Listen is called and one  *)
(* connection is handled against the router that was built.                 *)
(***************************************************************************)
InitRouter ==
    /\ router = newRouter
    /\ regs = <<>>
    /\ phase = "setup"
    /\ mainpc = "lib"
    /\ nacc = 0
    /\ conn = [c \in Conns |-> IdleConn]
    /\ resp = NoResponse
    /\ ops = <<>>
    /\ InitLib

CanRegister == phase = "setup" /\ mainpc = "lib" /\ Len(regs) < MaxRegs

RegStatic ==
    /\ CanRegister
    /\ \E route \in {pFiles}, target \in {tDirA, tDirB} :
         LET r == Static(router, route, target)
         IN /\ router' = r.router
            /\ regs' = Append(regs, Reg("Static", route, target, r.err))
    /\ UNCHANGED <<phase, mainpc, nacc, conn, resp, ops, libvars>>

RegGet ==
    /\ CanRegister
    /\ \E path \in {pUserName, pUserNameSp, pUserAdmin}, h \in Handlers :
         LET r == Get(router, path, h)
         IN /\ router' = r.router
            /\ regs' = Append(regs, Reg("Get", path, h, r.err))
    /\ UNCHANGED <<phase, mainpc, nacc, conn, resp, ops, libvars>>

RegHead ==
    /\ CanRegister
    /\ \E path \in {pUserName}, h \in {"h1"} :
         LET r == ServerHead(router, path, h)
         IN /\ router' = r.router
            /\ regs' = Append(regs, Reg("Head", path, h, r.err))
    /\ UNCHANGED <<phase, mainpc, nacc, conn, resp, ops, libvars>>

RegPost ==
    /\ CanRegister
    /\ \E path \in {pUserName}, h \in {"h2"} :
         LET r == Post(router, path, h)
         IN /\ router' = r.router
            /\ regs' = Append(regs, Reg("Post", path, h, r.err))
    /\ UNCHANGED <<phase, mainpc, nacc, conn, resp, ops, libvars>>

NextRouter ==
    \/ RegStatic
    \/ RegGet
    \/ RegHead
    \/ RegPost
    \/ Listen
    \/ Accept(1)
    \/ HandleRead(1)
    \/ HandleDispatch(1)
    \/ HandleReturn(1)

SpecRouter == InitRouter /\ [][NextRouter]_vars

(***************************************************************************)
(* SpecResponse: one response object, built by newResponse for a parsed     *)
(* request, on which a handler makes up to MaxOps Status, header-mutator    *)
(* and Write calls in any order.                                            *)
(***************************************************************************)
InitResponse ==
    /\ router = newRouter
    /\ regs = <<>>
    /\ phase = "setup"
    /\ mainpc = "lib"
    /\ nacc = 0
    /\ conn = [c \in Conns |-> IdleConn]
    /\ resp \in {newResponse(Request(sGET, v, rUserAlice)) : v \in {v11, v10}}
    /\ ops = <<>>
    /\ InitLib

RespStatus ==
    /\ Len(ops) < MaxOps
    /\ \E code \in {200, 404, 999} :
         /\ resp' = ResStatus(resp, code)
         /\ ops' = Append(ops, "Status")
    /\ UNCHANGED <<router, regs, phase, mainpc, nacc, conn, libvars>>

RespSetHeader ==
    /\ Len(ops) < MaxOps
    /\ \E name \in {"Content-Type", "Date"}, value \in {"a", "b"} :
         /\ resp' = ResSetHeader(resp, name, value)
         /\ ops' = Append(ops, "SetHeader")
    /\ UNCHANGED <<router, regs, phase, mainpc, nacc, conn, libvars>>

RespWrite ==
    /\ Len(ops) < MaxOps
    /\ \E data \in {"x", "y"} :
         /\ resp' = ResWrite(resp, data)
         /\ ops' = Append(ops, "Write")
    /\ UNCHANGED <<router, regs, phase, mainpc, nacc, conn, libvars>>

NextResponse == RespStatus \/ RespSetHeader \/ RespWrite

SpecResponse == InitResponse /\ [][NextResponse]_vars

(***************************************************************************)
(* Properties.                                                              *)
(***************************************************************************)
HasCall(c, ev) == \E i \in 1..Len(conn[c].calls) : conn[c].calls[i] = ev
CountCalls(c, evs) == Cardinality({i \in 1..Len(conn[c].calls) : conn[c].calls[i] \in evs})

\* the request method, trimmed and upper-cased, is listed for the response's version
MethodListed(c) ==
    \E k \in DOMAIN Versions :
        /\ ToLower(k) = ToLower(conn[c].res.Version)
        /\ \E i \in 1..Len(Versions[k]) :
              Versions[k][i] = ToUpper(TrimSpace(conn[c].req.Method))

\* C1: a parsed request whose method (trimmed, upper-cased) is not listed in
\* the allowed-methods table for the negotiated version gets status 405 and
\* the error handler; matchRoute is not called, 404 is not set and no route
\* handler runs, even when a route for the method and path is registered.
C1_NotAllowedIs405 ==
    \A c \in Conns :
        (conn[c].res.built /\ ~MethodListed(c)) =>
            /\ conn[c].res.StatusCode = StatusMethodNotAllowed
            /\ conn[c].handler = "error"
            /\ HasCall(c, "Status405")
            /\ HasCall(c, "ErrorHandler")
            /\ ~HasCall(c, "matchRoute")
            /\ ~HasCall(c, "Status404")
            /\ ~HasCall(c, "routeHandler")

\* a 405 was answered although the router holds a route for the request
C1_Witness ==
    \E c \in Conns :
        /\ conn[c].pc = "closed"
        /\ conn[c].res.built
        /\ ~MethodListed(c)
        /\ matchRoute(router, conn[c].req).err = NoError
        /\ HasCall(c, "Status405")

\* C2: for a parsed request whose method is allowed, RouteNotFound from
\* matchRoute gives status 404 and the error handler and no route handler;
\* a match invokes the matched handler on this connection's request and
\* response, and the error handler is not invoked.
C2_RouteNotFoundOrHandler ==
    \A c \in Conns :
        (conn[c].res.built /\ MethodListed(c)) =>
            LET m == matchRoute(router, conn[c].req)
            IN /\ HasCall(c, "matchRoute")
               /\ (m.err = RouteNotFound =>
                      /\ conn[c].res.StatusCode = StatusNotFound
                      /\ conn[c].handler = "error"
                      /\ HasCall(c, "Status404")
                      /\ HasCall(c, "ErrorHandler")
                      /\ ~HasCall(c, "routeHandler"))
               /\ (m.err = NoError =>
                      /\ conn[c].handler = m.handler
                      /\ conn[c].target = m.target
                      /\ conn[c].req.Segments = m.bound
                      /\ HasCall(c, "routeHandler")
                      /\ ~HasCall(c, "ErrorHandler")
                      /\ ~HasCall(c, "Status404"))

\* one connection ended in the 404 path and another in a matched handler
C2_Witness ==
    \E c, d \in Conns :
        /\ conn[c].pc = "closed" /\ MethodListed(c) /\ HasCall(c, "Status404")
        /\ conn[d].pc = "closed" /\ MethodListed(d) /\ HasCall(d, "routeHandler")
        /\ conn[d].handler = "h1"

\* C3: when read() fails the connection is closed with nothing written: no
\* response object is built, no status is set, and matchRoute, the route
\* handlers and the error handler are not invoked.
C3_ParseFailureSilent ==
    \A c \in Conns :
        HasCall(c, "readError") =>
            /\ conn[c].pc = "closed"
            /\ conn[c].calls = <<"readError", "Close">>
            /\ conn[c].res = NoResponse
            /\ conn[c].wire = <<>>
            /\ conn[c].handler = "none"

C3_Witness ==
    \E c \in Conns : HasCall(c, "readError") /\ conn[c].pc = "closed"

WroteBody(c) == \E i \in 1..Len(conn[c].wire) : conn[c].wire[i].t = "body"

\* C4: a request dispatched to a matched route handler that returns without
\* writing a body has its status line and header block on the connection
\* when the connection is closed.
C4_EmptyBodyFlushed ==
    \A c \in Conns :
        (conn[c].pc = "closed" /\ HasCall(c, "routeHandler") /\ ~WroteBody(c)) =>
            /\ Len(conn[c].wire) >= 2
            /\ conn[c].wire[1].t = "status"
            /\ conn[c].wire[2].t = "headers"

\* the supported version whose number is greatest
GreatestSupported ==
    CHOOSE k \in DOMAIN Versions :
        \A j \in DOMAIN Versions : ParseFloat(j) <= ParseFloat(k)

\* C5: a request version equal, ignoring case, to a supported version is the
\* response version unchanged; any other request version gives the
\* numerically greatest supported version.
C5_VersionNegotiation ==
    \A c \in Conns :
        conn[c].res.built =>
            LET v == conn[c].req.Version
            IN IF \E k \in DOMAIN Versions : ToLower(k) = ToLower(v)
               THEN conn[c].res.Version = v
               ELSE conn[c].res.Version = GreatestSupported

\* an unsupported version was negotiated down and a supported one echoed
C5_Witness ==
    \E c, d \in Conns :
        /\ conn[c].res.built /\ conn[c].req.Version = v20 /\ conn[c].res.Version = v11
        /\ conn[d].res.built /\ conn[d].req.Version = v10 /\ conn[d].res.Version = v10

\* C6: on a connection at most one request is read and dispatched, the
\* connection is closed once, as the last thing, after the failed parse or
\* the return of the invoked handler.
C6_OneRequestThenClose ==
    \A c \in Conns :
        LET cs == conn[c].calls
        IN /\ CountCalls(c, {"read", "readError"}) <= 1
           /\ CountCalls(c, {"routeHandler", "ErrorHandler"}) <= 1
           /\ CountCalls(c, {"Close"}) <= 1
           /\ (conn[c].pc = "closed") = HasCall(c, "Close")
           /\ HasCall(c, "Close") =>
                 /\ cs[Len(cs)] = "Close"
                 /\ cs[Len(cs) - 1] \in {"readError", "return"}
           /\ HasCall(c, "return") =>
                 /\ CountCalls(c, {"routeHandler", "ErrorHandler"}) = 1
                 /\ cs[Len(cs) - 1] = "return"

\* both ways of closing happened: after a failed parse and after a handler
C6_Witness ==
    \E c, d \in Conns :
        /\ conn[c].calls = <<"readError", "Close">>
        /\ conn[d].pc = "closed" /\ HasCall(d, "return") /\ HasCall(d, "read")

(***************************************************************************)
(* Properties of registration and matching.                                 *)
(***************************************************************************)
DynOps == {"Get", "Head", "Post"}
MethodOf(op) == CASE op = "Get" -> sGET [] op = "Head" -> sHEAD [] op = "Post" -> sPOST
                  [] OTHER -> <<>>

\* two registration calls name the same route
SameRoute(i, j) ==
    /\ regs[i].op = regs[j].op
    /\ IF regs[i].op = "Static"
       THEN regs[i].path = regs[j].path
       ELSE TrimSpace(regs[i].path) = TrimSpace(regs[j].path)

\* the first call that named the route of call j
FirstReg(j) == Min({i \in 1..j : SameRoute(i, j)})

RegNode(j) == SplitPath(TrimSpace(regs[j].path))

\* C7: registering a route already registered for the same method and path
\* (pattern compared after trimming for Get/Head/Post, prefix for Static)
\* returns DuplicateRoute, and the router keeps the first registration: the
\* tree holds the first handler, the static list the first target, and a
\* matching request is resolved to them.
C7_DuplicateRouteKeepsFirst ==
    /\ \A j \in 1..Len(regs) :
          /\ (\E i \in 1..(j - 1) : SameRoute(i, j) /\ regs[i].err = NoError)
                => regs[j].err = DuplicateRoute
          /\ (regs[j].op \in DynOps /\ regs[FirstReg(j)].err = NoError) =>
                {h.handler : h \in {x \in router.RouteTree.handlers :
                                       x.node = RegNode(j) /\ x.method = MethodOf(regs[j].op)}}
                   = {regs[FirstReg(j)].arg}
          /\ (regs[j].op = "Static" /\ regs[FirstReg(j)].err = NoError) =>
                \A m \in {sGET, sHEAD} :
                    \E i \in 1..Len(router.Routes) :
                        /\ router.Routes[i].Method = m
                        /\ router.Routes[i].RoutePath = regs[j].path
                        /\ router.Routes[i].TargetPath = regs[FirstReg(j)].arg
                        /\ \A k \in 1..Len(router.Routes) :
                              (router.Routes[k].Method = m
                                 /\ router.Routes[k].RoutePath = regs[j].path) => k = i
    /\ \A c \in Conns :
          /\ conn[c].handler \in Handlers =>
                \E j \in 1..Len(regs) :
                    /\ regs[j].op \in DynOps /\ FirstReg(j) = j
                    /\ MethodOf(regs[j].op) = conn[c].req.Method
                    /\ RegNode(j) = conn[c].node
                    /\ regs[j].arg = conn[c].handler
          /\ conn[c].handler = "static" =>
                \E j \in 1..Len(regs) :
                    /\ regs[j].op = "Static" /\ FirstReg(j) = j
                    /\ HasPrefix(conn[c].target, regs[j].arg)

\* a second Get for the same pattern, written with surrounding blanks and
\* another handler, was refused, and a request was then served by the first
C7_Witness ==
    \E j \in 1..Len(regs) :
        /\ regs[j].op = "Get" /\ regs[j].err = DuplicateRoute
        /\ regs[j].arg # regs[FirstReg(j)].arg
        /\ regs[j].path # regs[FirstReg(j)].path
        /\ conn[1].pc = "closed"
        /\ conn[1].node = RegNode(j)
        /\ conn[1].handler = regs[FirstReg(j)].arg

\* C8: with main's routes (GET /user/:name), a GET request path of two
\* segments whose first is "user" resolves to that handler with
\* segments["name"] the one-element sequence holding the second segment;
\* /user and /user/alice/extra fail with RouteNotFound.
C8_UserNamePattern ==
    \A c \in Conns :
        (HasCall(c, "matchRoute") /\ conn[c].req.Method = sGET) =>
            LET segs == SplitPath(conn[c].req.Path)
            IN /\ (Len(segs) = 2 /\ segs[1] = segUser) =>
                      /\ HasCall(c, "routeHandler")
                      /\ conn[c].handler = "h1"
                      /\ SegmentsGet(conn[c].req.Segments, segName) = <<segs[2]>>
               /\ (conn[c].req.Path \in {rUser, rUserAliceExtra}) =>
                      /\ HasCall(c, "Status404")
                      /\ conn[c].handler = "error"
                      /\ ~HasCall(c, "routeHandler")

\* /user/alice was resolved with name = alice, /user/bob with name = bob on
\* another connection
C8_Witness ==
    \E c, d \in Conns :
        /\ conn[c].req.Path = rUserAlice /\ conn[c].handler = "h1"
        /\ SegmentsGet(conn[c].req.Segments, segName) = <<segAlice>>
        /\ conn[d].req.Path = rUserBob /\ conn[d].handler = "h1"
        /\ SegmentsGet(conn[d].req.Segments, segName) = <<segBob>>

LiteralOnly(node) == \A i \in 1..Len(node) : ~IsParam(node[i])

\* the bindings a descent to node makes for the request segments
RECURSIVE Bindings(_, _, _)
Bindings(node, segs, i) ==
    IF i > Len(node) THEN <<>>
    ELSE (IF IsParam(node[i])
          THEN <<[name |-> ParamName(node[i]), value |-> segs[i]]>> ELSE <<>>)
         \o Bindings(node, segs, i + 1)

\* C9: in the descent a literal child equal to the request segment is taken
\* in preference to the parameter child and binds nothing; the parameter
\* child is used only where no literal child matches.  A request path that
\* matches a registered literal-only pattern resolves to it with no
\* parameter bound.
C9_LiteralBeforeParameter ==
    \A c \in Conns :
        /\ conn[c].handler \in Handlers =>
              LET segs == SplitPath(conn[c].req.Path)
                  nd == conn[c].node
              IN /\ Len(nd) = Len(segs)
                 /\ \A i \in 1..Len(segs) :
                       IF ~IsParam(segs[i]) /\
                          Append(SubSeq(nd, 1, i - 1), segs[i]) \in router.RouteTree.nodes
                       THEN nd[i] = segs[i]
                       ELSE IsParam(nd[i])
                 /\ conn[c].req.Segments = Bindings(nd, segs, 1)
        /\ HasCall(c, "matchRoute") =>
              \A j \in 1..Len(regs) :
                  ( /\ regs[j].op \in DynOps /\ regs[j].err = NoError
                    /\ MethodOf(regs[j].op) = conn[c].req.Method
                    /\ LiteralOnly(RegNode(j))
                    /\ RegNode(j) = SplitPath(conn[c].req.Path)
                    /\ StaticMatches(router, conn[c].req.Method, conn[c].req.Path) = {} )
                  => /\ conn[c].handler = regs[j].arg
                     /\ conn[c].node = RegNode(j)
                     /\ conn[c].req.Segments = <<>>

\* /user/admin and /user/:name are both registered with different handlers
\* and GET /user/admin went to the literal route with nothing bound
C9_Witness ==
    \E i, j \in 1..Len(regs) :
        /\ regs[i].op = "Get" /\ regs[i].path = pUserAdmin /\ regs[i].err = NoError
        /\ regs[j].op = "Get" /\ regs[j].path = pUserName /\ regs[j].err = NoError
        /\ regs[i].arg # regs[j].arg
        /\ conn[1].pc = "closed"
        /\ conn[1].req.Path = rUserAdmin
        /\ conn[1].handler = regs[i].arg
        /\ conn[1].req.Segments = <<>>

(***************************************************************************)
(* Properties of the response.                                              *)
(***************************************************************************)
IsPrefixSeq(a, b) == Len(a) <= Len(b) /\ SubSeq(b, 1, Len(a)) = a

\* the output is empty, or the status line, the header block, then body only
OutShape(out) ==
    /\ out # <<>> => (Len(out) >= 3 /\ out[1].t = "status" /\ out[2].t = "headers")
    /\ \A i \in 3..Len(out) : out[i].t = "body"

\* C10: for any sequence of Status, header-mutator and Write calls the
\* status line and header block are written at most once and before any
\* body byte; what was sent is never altered, and a header mutation made
\* after the first flush changes nothing.
C10_HeadersOnceBeforeBody ==
    /\ [](OutShape(resp.out) /\ (resp.headersSent <=> resp.out # <<>>))
    /\ [][ /\ IsPrefixSeq(resp.out, resp'.out)
           /\ resp.headersSent =>
                 /\ resp'.headersSent
                 /\ resp'.Headers = resp.Headers
                 /\ \A i \in (Len(resp.out) + 1)..Len(resp'.out) :
                       resp'.out[i].t = "body" ]_vars

\* a Write, then a header mutation, then a second Write
C10_Witness ==
    /\ ops = <<"Write", "SetHeader", "Write">>
    /\ resp.headersSent
    /\ Len(resp.out) = 4

(***************************************************************************)
(* SpecContentType: one content-type resolution, for a path and for what    *)
(* the filesystem reports for it.                                           *)
(***************************************************************************)
LookupNames ==
    { <<"r","e","p","o","r","t",".","p","d","f">>,
      <<"R","E","P","O","R","T",".","P","D","F">>,
      <<"r","e","p","o","r","t",".","P","d","f"," ">>,
      <<"i","n","d","e","x",".","h","t","m","l">>,
      <<"u","n","k","n","o","w","n",".","x","y","z">>,
      <<"R","E","A","D","M","E">>,
      <<"a",".","t","a","r",".","p","d","f">>,
      <<"a",".","p","d","f",".","t","a","r">>,
      <<"v","1",".","p","d","f","/","n","o","t","e","s">>,
      <<"v","1",".","0","/","x",".","h","t","m","l">>,
      <<".","p","d","f">>,
      <<"r","e","p","o","r","t",".">>,
      <<"p","d","f">>,
      <<>> }

LookupPaths == {tDirA \o Slash \o n : n \in LookupNames}

InitContentType ==
    /\ router = newRouter
    /\ regs = <<>>
    /\ phase = "setup"
    /\ mainpc = "lib"
    /\ nacc = 0
    /\ conn = [c \in Conns |-> IdleConn]
    /\ resp = NoResponse
    /\ ops = <<>>
    /\ nerr = 0
    /\ lookup \in {[NoLookup EXCEPT !.path = p, !.ptype = t] :
                      p \in LookupPaths, t \in PathTypes}
    /\ negot = NoNegot
    /\ ServerInstance = 1
    /\ SrvLogger = 1
    /\ servers = 1
    /\ caller = [k \in Callers |-> IdleCaller]

ResolveContentType ==
    /\ ~lookup.done
    /\ LET r == getContentType(lookup.path, lookup.ptype)
       IN lookup' = [lookup EXCEPT !.done = TRUE,
                                   !.contentType = r.contentType, !.ok = r.ok]
    /\ UNCHANGED <<router, regs, phase, mainpc, nacc, conn, resp, ops,
                   nerr, negot, ServerInstance, SrvLogger, servers, caller>>

NextContentType == ResolveContentType

SpecContentType == InitContentType /\ [][NextContentType]_vars

\* the extension of a path: its last part from a dot on, holding no other
\* dot and no separator; empty when there is none
ExtensionOf(path) ==
    IF \E i \in 1..Len(path) :
           path[i] = "." /\ \A j \in (i + 1)..Len(path) : path[j] \notin {".", "/"}
    THEN LET i == CHOOSE k \in 1..Len(path) :
                     path[k] = "." /\ \A j \in (k + 1)..Len(path) : path[j] \notin {".", "/"}
         IN SubSeq(path, i, Len(path))
    ELSE <<>>

\* C11: for a path the filesystem reports as a regular file the resolution
\* succeeds with the table entry of the trimmed, lower-cased extension when
\* it is a key of the table, and with the default content type otherwise
\* (also when there is no extension); for a directory, a missing path or a
\* failed lookup it gives the empty string and false.
C11_ContentType ==
    lookup.done =>
        LET e == ToLower(TrimSpace(ExtensionOf(lookup.path)))
        IN IF lookup.ptype = "file"
           THEN /\ lookup.ok
                /\ lookup.contentType =
                      (IF \E k \in DOMAIN AllowedContentTypes : k = e
                       THEN AllowedContentTypes[e]
                       ELSE ctDefault)
           ELSE /\ ~lookup.ok
                /\ lookup.contentType = <<>>

\* a file whose extension is written in upper case resolved through the table
C11_Witness ==
    /\ lookup.done
    /\ lookup.ptype = "file"
    /\ lookup.path = tDirA \o Slash \o <<"R","E","P","O","R","T",".","P","D","F">>
    /\ lookup.contentType = ctPdf

(***************************************************************************)
(* Concurrency of the connection tasks (Spec).                              *)
(***************************************************************************)
\* C12: once Listen is accepting, no step (no Accept and no step of any
\* handleClient task, in any interleaving) changes the static routes, the
\* route tree or the registrations made: the router stays what setup left.
C12_RouterReadOnlyAfterSetup ==
    [][/\ (phase = "listening" => router' = router /\ regs' = regs)
       /\ (conn' # conn => router' = router /\ regs' = regs)]_vars

\* both connections were dispatched and closed against main's router
C12_Witness ==
    /\ phase = "listening"
    /\ \A c \in Conns : conn[c].pc = "closed" /\ HasCall(c, "matchRoute")
    /\ Len(router.Routes) = 2
    /\ router.RouteTree.handlers # {}

\* the task of a connection handled alone against router rt, at the position
\* pc, for the request rq that was read
SoloTask(rt, rq, pc) ==
    LET parsed == [IdleConn EXCEPT !.pc = "parsed", !.req = rq, !.calls = <<"read">>]
        atHandler == Dispatch(parsed, rt)
        rs == RunHandler(atHandler.handler, atHandler.req, atHandler.res,
                         atHandler.target)
    IN CASE pc = "parsed" -> parsed
         [] pc = "handler" -> atHandler
         [] OTHER -> [atHandler EXCEPT !.pc = "closed", !.res = rs, !.wire = rs.out,
                                       !.ret = HandlerReturn(atHandler.handler),
                                       !.calls = @ \o <<"return", "Close">>]

\* C13: in every interleaving, what a connection task holds (request with
\* its bound segments, response with its version and status, handler
\* invoked, target, calls made, bytes written) is what the task of that
\* connection handled alone against the same router holds at that position.
C13_TasksIndependent ==
    [](\A c \in Conns :
        /\ conn[c].pc \in {"idle", "accepted"} =>
               conn[c] = [IdleConn EXCEPT !.pc = conn[c].pc]
        /\ (conn[c].pc = "closed" /\ ~HasCall(c, "read")) =>
               conn[c] = [IdleConn EXCEPT !.pc = "closed",
                                          !.calls = <<"readError", "Close">>]
        /\ (conn[c].pc \in {"parsed", "handler", "closed"} /\ HasCall(c, "read")) =>
               conn[c] = SoloTask(router, [conn[c].req EXCEPT !.Segments = <<>>],
                                  conn[c].pc))

\* two tasks with different outcomes: one ended in the 405 error handler
\* while the other is at the matched route handler with its segment bound
C13_Witness ==
    \E c, d \in Conns :
        /\ c # d
        /\ conn[c].pc = "closed" /\ conn[c].res.StatusCode = StatusMethodNotAllowed
        /\ conn[d].pc = "handler" /\ conn[d].handler = "h1"
        /\ conn[d].req.Segments # <<>>

\* C14: a task that is stalled in its read or in its handler's write holds
\* back nothing else: in every state, whatever the other tasks are doing,
\* the accept loop can take the next connection, a task whose request is
\* there can read it and a task whose handler returns can return and close;
\* and a step of one task or of the accept loop changes no other task.
C14_StalledBlocksOnlyItself ==
    /\ [](/\ (phase = "listening" /\ nacc < MaxConns) => ENABLED Accept(nacc + 1)
          /\ \A c \in Conns :
                /\ conn[c].pc = "accepted" => ENABLED HandleRead(c)
                /\ conn[c].pc = "handler" => ENABLED HandleReturn(c))
    /\ [][\A c \in Conns :
             conn'[c] # conn[c] =>
                 /\ \A d \in Conns \ {c} : conn'[d] = conn[d]
                 /\ conn[c].pc = "parsed" => conn'[c].pc = "handler"]_vars

\* the first connection has not been read yet, and a later one was accepted,
\* dispatched and closed meanwhile
C14_Witness ==
    \E c, d \in Conns :
        /\ c < d
        /\ conn[c].pc = "accepted"
        /\ conn[d].pc = "closed" /\ HasCall(d, "matchRoute")

(***************************************************************************)
(* SpecListen: Listen and its accept loop.  A caller registers the static   *)
(* route of main and /user/:name with one of the handlers, then calls       *)
(* Listen; Accept fails up to MaxAcceptErrors times, at any point of the    *)
(* loop, and one connection is accepted and handled.                        *)
(***************************************************************************)
SetupGet ==
    /\ mainpc = "get"
    /\ \E h \in Handlers :
         LET r == Get(router, pUserName, h)
         IN /\ router' = r.router
            /\ regs' = Append(regs, Reg("Get", pUserName, h, r.err))
    /\ mainpc' = "listen"
    /\ UNCHANGED <<phase, nacc, conn, resp, ops, libvars>>

\* faulty variant: an Accept error ends the loop and Listen returns
AcceptError_break ==
    /\ phase = "listening"
    /\ nerr < MaxAcceptErrors
    /\ nerr' = nerr + 1
    /\ phase' = "stopped"
    /\ UNCHANGED <<router, regs, mainpc, nacc, conn, resp, ops,
                   lookup, negot, ServerInstance, SrvLogger, servers, caller>>

\* Accept returns an error: it is logged and the loop goes on
AcceptError ==
    /\ phase = "listening"
    /\ nerr < MaxAcceptErrors
    /\ nerr' = nerr + 1
    /\ UNCHANGED <<router, regs, phase, mainpc, nacc, conn, resp, ops,
                   lookup, negot, ServerInstance, SrvLogger, servers, caller>>

NextListen ==
    \/ MainStatic
    \/ SetupGet
    \/ Listen
    \/ AcceptError
    \/ Accept(1)
    \/ HandleRead(1)
    \/ HandleDispatch(1)
    \/ HandleReturn(1)

SpecListen == Init /\ [][NextListen]_vars

\* the scheduler runs a task that can take a step: the read of the request
\* and the invoked handler return, and the task goes on
FairSpecListen ==
    /\ SpecListen
    /\ WF_vars(HandleRead(1))
    /\ WF_vars(HandleDispatch(1))
    /\ WF_vars(HandleReturn(1))

\* C15: under fair scheduling, with the read and the handler returning, the
\* accepted connection is eventually closed, whichever way handleClient
\* goes: parse failure, 405, 404, or a matched handler, also one that
\* returns an error.
C15_AcceptedEventuallyClosed ==
    conn[1].pc = "accepted" ~> conn[1].pc = "closed"

\* the matched handler returned an error and the connection was closed
C15_Witness ==
    /\ conn[1].pc = "closed"
    /\ conn[1].handler = "h2"
    /\ conn[1].ret = "error"
    /\ conn[1].calls[Len(conn[1].calls)] = "Close"

\* the calls of a task that invoke a handler
Invocations == {"ErrorHandler", "routeHandler"}

\* C16: a connection task invokes a handler at most once: exactly once, and
\* exactly one of the error handler after 405, the error handler after 404
\* and the matched route handler, when the request parsed, and never when
\* it did not.  When the route handler returned an error, the error handler
\* did not run, the response is what the handler left (status included) and
\* nothing was dispatched after the return.
C16_OneInvocationErrorDiscarded ==
    \A c \in Conns :
        /\ CountCalls(c, Invocations) <= 1
        /\ HasCall(c, "readError") => CountCalls(c, Invocations) = 0
        /\ (conn[c].pc \in {"handler", "closed"} /\ HasCall(c, "read")) =>
              /\ CountCalls(c, Invocations) = 1
              /\ CountCalls(c, {"Status405", "Status404", "routeHandler"}) = 1
              /\ HasCall(c, "ErrorHandler") <=> ~HasCall(c, "routeHandler")
        /\ (conn[c].pc = "closed" /\ conn[c].ret = "error") =>
              LET before == Dispatch([IdleConn EXCEPT !.req = [conn[c].req EXCEPT !.Segments = <<>>]],
                                     router)
                  left == RunHandler(before.handler, before.req, before.res, before.target)
              IN /\ ~HasCall(c, "ErrorHandler")
                 /\ conn[c].res = left
                 /\ conn[c].res.StatusCode = before.res.StatusCode
                 /\ conn[c].wire = left.out
                 /\ conn[c].calls = <<"read", "newResponse", "matchRoute",
                                      "routeHandler", "return", "Close">>

\* a route handler that returned an error, after which the task only closed
C16_Witness ==
    /\ conn[1].pc = "closed"
    /\ conn[1].ret = "error"
    /\ HasCall(1, "routeHandler")
    /\ conn[1].res.StatusCode = StatusOK

(***************************************************************************)
(* SpecStatic: up to MaxStatics calls of Static, for any of three route     *)
(* prefixes and two target directories.                                     *)
(***************************************************************************)
pDocs == <<"/","d","o","c","s">>

StaticPrefixes == {pFiles, pFiles \o Slash, pDocs}

CallStatic ==
    /\ phase = "setup"
    /\ Len(regs) < MaxStatics
    /\ \E route \in StaticPrefixes, target \in {tDirA, tDirB} :
         LET r == Static(router, route, target)
         IN /\ router' = r.router
            /\ regs' = Append(regs, Reg("Static", route, target, r.err))
    /\ UNCHANGED <<phase, mainpc, nacc, conn, resp, ops, libvars>>

NextStatic == CallStatic

SpecStatic == InitRouter /\ [][NextStatic]_vars

OtherMethod(method) == IF method = sGET THEN sHEAD ELSE sGET

\* C17: after any sequence of Static calls every static route is for GET or
\* for HEAD, and a prefix has a GET route exactly when it has a HEAD route,
\* both with the same target; a Static call that returns an error leaves the
\* static routes as they were.
C17_StaticGetAndHead ==
    /\ [](\A i \in 1..Len(router.Routes) :
            /\ router.Routes[i].Method \in {sGET, sHEAD}
            /\ \E j \in 1..Len(router.Routes) :
                  /\ router.Routes[j].Method = OtherMethod(router.Routes[i].Method)
                  /\ router.Routes[j].RoutePath = router.Routes[i].RoutePath
                  /\ router.Routes[j].TargetPath = router.Routes[i].TargetPath
            /\ \A j \in 1..Len(router.Routes) :
                  router.Routes[j].RoutePath = router.Routes[i].RoutePath =>
                      router.Routes[j].TargetPath = router.Routes[i].TargetPath)
    /\ [][(regs' # regs /\ regs'[Len(regs')].err # NoError) =>
              router'.Routes = router.Routes]_vars

\* a Static call failed on a prefix registered before, for another target,
\* and two prefixes are registered
C17_Witness ==
    /\ Len(regs) = 3
    /\ regs[2].err = DuplicateRoute
    /\ regs[2].arg # regs[1].arg
    /\ regs[3].err = NoError
    /\ Len(router.Routes) = 4

(***************************************************************************)
(* The accept loop (SpecListen).                                            *)
(***************************************************************************)
\* C20: an Accept error changes nothing but the count of errors: the loop
\* goes on and no task is spawned; whatever the number of errors, the next
\* connection can be accepted, and the tasks spawned are the connections
\* accepted.  When the listener could not be created no connection is
\* accepted and no task exists; once it is created Listen does not return.
C20_AcceptLoop ==
    /\ [](/\ phase = "stopped" => (nacc = 0 /\ \A c \in Conns : conn[c] = IdleConn)
          /\ (phase = "listening" /\ nacc = 0) => ENABLED Accept(1)
          /\ Cardinality({c \in Conns : conn[c].pc # "idle"}) = nacc
          /\ phase # "listening" => nerr = 0)
    /\ [][/\ nerr' # nerr => (phase' = "listening" /\ nacc' = nacc /\ conn' = conn)
          /\ phase = "listening" => phase' = "listening"
          /\ phase = "stopped" => (phase' = "stopped" /\ nacc' = nacc /\ conn' = conn)
          /\ nacc' # nacc => (nacc' = nacc + 1 /\ conn'[nacc'].pc = "accepted")]_vars

\* Accept failed twice, then the connection was accepted, handled and closed
C20_Witness ==
    /\ nerr = 2
    /\ nacc = 1
    /\ conn[1].pc = "closed"
    /\ HasCall(1, "matchRoute")

(***************************************************************************)
(* SpecVersions: one version negotiation, for a supported-versions table    *)
(* and a request version.  The tables: the package's own, and tables with   *)
(* other keys a maintainer may write (a key without decimals, a key with a  *)
(* blank, a key that is no number).                                         *)
(***************************************************************************)
v2 == <<"2">>
v11Sp == <<" ","1",".","1">>
vHttp == <<"h","t","t","p">>

VersionTables ==
    { Versions,
      (v10 :> <<sGET, sHEAD>>) @@ (v11 :> <<sGET, sHEAD, sPOST>>),
      (v09 :> <<sGET>>),
      (v10 :> <<sGET>>) @@ (v2 :> <<sGET, sHEAD>>),
      (v10 :> <<sGET>>) @@ (v11Sp :> <<sGET, sHEAD>>),
      (vHttp :> <<sGET>>) }

RequestVersions == {v09, v10, v11, v20, v2, v11Sp, vHttp, vJunk, <<>>}

InitVersions ==
    /\ router = newRouter
    /\ regs = <<>>
    /\ phase = "setup"
    /\ mainpc = "lib"
    /\ nacc = 0
    /\ conn = [c \in Conns |-> IdleConn]
    /\ resp = NoResponse
    /\ ops = <<>>
    /\ nerr = 0
    /\ lookup = NoLookup
    /\ negot \in {[NoNegot EXCEPT !.table = t, !.requestVersion = v] :
                     t \in VersionTables, v \in RequestVersions}
    /\ ServerInstance = 1
    /\ SrvLogger = 1
    /\ servers = 1
    /\ caller = [k \in Callers |-> IdleCaller]

Negotiate ==
    /\ ~negot.done
    /\ negot' = [negot EXCEPT !.done = TRUE,
                              !.responseVersion =
                                  getResponseVersionOf(negot.table, negot.requestVersion)]
    /\ UNCHANGED <<router, regs, phase, mainpc, nacc, conn, resp, ops,
                   nerr, lookup, ServerInstance, SrvLogger, servers, caller>>

NextVersions == Negotiate

SpecVersions == InitVersions /\ [][NextVersions]_vars

\* C18: for every non-empty table and every request version, the response
\* version chosen is, ignoring case, a key of the table (so the method check
\* finds an entry for it), and the highest version formatted with one
\* decimal is itself a key of the table.
C18_ResponseVersionIsKey ==
    negot.done =>
        /\ \E k \in DOMAIN negot.table : EqualFold(k, negot.responseVersion)
        /\ getHighestVersionOf(negot.table) \in DOMAIN negot.table

(***************************************************************************)
(* SpecNewServer: up to MaxCallers concurrent calls of NewServer, from the  *)
(* start of the process.  NewServer takes no lock: each read or write of    *)
(* SrvLogger and ServerInstance is a step of its own.                       *)
(***************************************************************************)
InitNewServer ==
    /\ router = newRouter
    /\ regs = <<>>
    /\ phase = "setup"
    /\ mainpc = "lib"
    /\ nacc = 0
    /\ conn = [c \in Conns |-> IdleConn]
    /\ resp = NoResponse
    /\ ops = <<>>
    /\ nerr = 0
    /\ lookup = NoLookup
    /\ negot = NoNegot
    /\ ServerInstance = 0
    /\ SrvLogger = 0
    /\ servers = 0
    /\ caller = [k \in Callers |-> IdleCaller]

\* a caller enters NewServer and tests SrvLogger == nil
NewServerCheckLogger(k) ==
    /\ caller[k].pc = "idle"
    /\ caller' = [caller EXCEPT ![k].pc = IF SrvLogger = 0 THEN "logger" ELSE "check"]
    /\ UNCHANGED <<router, regs, phase, mainpc, nacc, conn, resp, ops,
                   nerr, lookup, negot, ServerInstance, SrvLogger, servers>>

\* SrvLogger = log.New(...)
NewServerSetLogger(k) ==
    /\ caller[k].pc = "logger"
    /\ SrvLogger' = k
    /\ caller' = [caller EXCEPT ![k].pc = "check"]
    /\ UNCHANGED <<router, regs, phase, mainpc, nacc, conn, resp, ops,
                   nerr, lookup, negot, ServerInstance, servers>>

\* the test ServerInstance == nil; when it fails ServerInstance is returned
NewServerCheckInstance(k) ==
    /\ caller[k].pc = "check"
    /\ caller' = [caller EXCEPT ![k] = IF ServerInstance = 0
                                       THEN [pc |-> "create", ret |-> 0]
                                       ELSE [pc |-> "done", ret |-> ServerInstance]]
    /\ UNCHANGED <<router, regs, phase, mainpc, nacc, conn, resp, ops,
                   nerr, lookup, negot, ServerInstance, SrvLogger, servers>>

\* a new HttpServer with a new router is built, stored in ServerInstance and
\* returned
NewServerCreate(k) ==
    /\ caller[k].pc = "create"
    /\ servers' = servers + 1
    /\ ServerInstance' = servers + 1
    /\ caller' = [caller EXCEPT ![k] = [pc |-> "done", ret |-> servers + 1]]
    /\ UNCHANGED <<router, regs, phase, mainpc, nacc, conn, resp, ops,
                   nerr, lookup, negot, SrvLogger>>

NewServer(k) ==
    \/ NewServerCheckLogger(k)
    \/ NewServerSetLogger(k)
    \/ NewServerCheckInstance(k)
    \/ NewServerCreate(k)

NextNewServer ==
    \/ \E k \in Callers : NewServerCheckLogger(k)
    \/ \E k \in Callers : NewServerSetLogger(k)
    \/ \E k \in Callers : NewServerCheckInstance(k)
    \/ \E k \in Callers : NewServerCreate(k)

SpecNewServer == InitNewServer /\ [][NextNewServer]_vars

\* C19: whatever the interleaving of the callers, at most one HttpServer
\* (with its router) is ever created and every call that has returned
\* returned that one instance.
C19_Singleton ==
    /\ servers <= 1
    /\ \A j, k \in Callers :
          (caller[j].pc = "done" /\ caller[k].pc = "done") =>
              caller[j].ret = caller[k].ret

====
